---- MODULE Spec2Model ----
(***************************************************************************)
(* MNIST 1-layer neural network (src/main.c): initLayer, trainLayer and    *)
(* testLayer with their OpenMP parallel loops over the output cells.       *)
(*                                                                         *)
(* Each iteration i of a "#pragma omp parallel for" loop is a worker that  *)
(* may be scheduled on its own thread: the workers of one sample           *)
(* interleave arbitrarily and the master continues only after the implicit *)
(* barrier that ends the loop.                                             *)
(*                                                                         *)
(* A C double is modelled as a decimal floating-point number of Precision  *)
(* significant digits, rounded to nearest (ties to even) after every       *)
(* operation, with FracDigits digits below the decimal point at the small  *)
(* end (the subnormal range).  A number is held as the integer count of    *)
(* its quanta of 10^-FracDigits, so 1.0 is Unit.                           *)
(***************************************************************************)
EXTENDS Integers, Sequences, FiniteSets, TLC

----------------------------------------------------------------------------
(* Bounds of the model *)

\* significant decimal digits kept by a modelled double
Precision == 2
\* decimal digits below the point of the smallest modelled double
FracDigits == 4
\* N: pixels per image (NUMBER_OF_INPUT_CELLS)
NUMBER_OF_INPUT_CELLS == 2
\* C: cells of the layer (NUMBER_OF_OUTPUT_CELLS)
NUMBER_OF_OUTPUT_CELLS == 2
\* records read by the training pass
MNIST_MAX_TRAINING_IMAGES == 2
\* records read by the testing pass
MNIST_MAX_TESTING_IMAGES == 2
\* seeds of the pseudo-random generator that initLayer draws the weights from
NumSeeds == 2
\* distinct (image, label) records a stream may hold
NumRecords == 4

Cells == 0 .. (NUMBER_OF_OUTPUT_CELLS - 1)
Inputs == 0 .. (NUMBER_OF_INPUT_CELLS - 1)

----------------------------------------------------------------------------
(* double arithmetic *)

RECURSIVE Pow10(_)
Pow10(k) == IF k = 0 THEN 1 ELSE 10 * Pow10(k - 1)

RECURSIVE Pow2(_)
Pow2(k) == IF k = 0 THEN 1 ELSE 2 * Pow2(k - 1)

Unit == Pow10(FracDigits)

Abs(x) == IF x < 0 THEN -x ELSE x

Sign(x) == IF x > 0 THEN 1 ELSE IF x < 0 THEN -1 ELSE 0

RECURSIVE NumDigits(_)
NumDigits(n) == IF n < 10 THEN 1 ELSE 1 + NumDigits(n \div 10)

RECURSIVE GCD(_, _)
GCD(a, b) ==
    IF b = 0 THEN a ELSE CHOOSE g \in {GCD(y, x % y) : x \in {a}, y \in {b}} : TRUE

\* num/den (den > 0) rounded to the nearest integer, ties to the even one
RoundHalfEven(num, den) ==
    LET a == Abs(num)
        q == a \div den
        r == a % den
        up == (2 * r > den) \/ (2 * r = den /\ q % 2 = 1)
    IN  Sign(num) * (IF up THEN q + 1 ELSE q)

\* the double nearest to num/den quanta: Precision significant digits
Exponent(whole) == IF whole < Pow10(Precision) THEN 0 ELSE NumDigits(whole) - Precision
RoundRat(num, den) ==
    CHOOSE r \in {RoundHalfEven(n, d * Pow10(e)) * Pow10(e) :
                     n \in {num}, d \in {den}, e \in {Exponent(Abs(num) \div den)}} : TRUE

\* The operations on doubles.  Each takes the values of its operands through
\* a bound variable, so that an operand is evaluated once however often the
\* rounding uses it.
FAdd(a, b) == CHOOSE r \in {RoundRat(x + y, 1) : x \in {a}, y \in {b}} : TRUE
FSub(a, b) == CHOOSE r \in {RoundRat(x - y, 1) : x \in {a}, y \in {b}} : TRUE
\* the factor common to b and Unit is cancelled before the product is formed
Reduced(y) == y \div GCD(Abs(y), Unit)
UnitReduced(y) == Unit \div GCD(Abs(y), Unit)
FMul(a, b) ==
    CHOOSE r \in {RoundRat(x * Reduced(y), UnitReduced(y)) : x \in {a}, y \in {b}} : TRUE
FDiv(a, b) ==
    CHOOSE r \in {RoundRat(x * UnitReduced(y), Reduced(y)) : x \in {a}, y \in {b}} : TRUE
\* (double) n
FromInt(n) == CHOOSE r \in {RoundRat(x * Unit, 1) : x \in {n}} : TRUE

----------------------------------------------------------------------------
VARIABLES
    pc,            \* position of the master thread in main/trainLayer/testLayer
    wpc,           \* position of the worker of each iteration of the parallel loop
    cell,          \* l->cell: per cell the weight, input and output fields
    img,           \* MNIST_Image img of the current loop iteration
    lbl,           \* MNIST_Label lbl of the current loop iteration
    targetOutput,  \* Vector targetOutput of the current loop iteration
    imgCount,      \* loop counter of the pass
    errCount,      \* error counter of the pass
    predictedNum,  \* result of the last getLayerPrediction
    open,          \* the streams that are open
    reports,       \* what the passes printed: pass, errCount, successRate
    \* history (not read by the program)
    acc,           \* memory locations each worker has read and written this loop
    weightBefore,  \* the weights when the current sample was read
    entryWeight,   \* the weights when the current pass was entered
    seqCell,       \* l->cell after the current loop run in index order
    nRead,         \* records read in the current pass
    started,       \* per cell: samples of this pass whose step the cell has started
    finished,      \* per cell: samples of this pass whose step the cell has finished
    history,       \* per processed sample of this pass: prediction and label
    seqErrCount,   \* the error counter of the pass had every loop run in index order
    prev,          \* the previous sample of this pass: its image and the cells after it
    inits,         \* times initLayer has run
    updates,       \* per cell: update steps (lines 94-101) run since the program started
    evals,         \* per cell: compute steps of testLayer run since the program started
    lastTrained,   \* the weights after the latest update step of trainLayer
    processed      \* per pass: the stream positions of the records processed, in order

vars == << pc, wpc, cell, img, lbl, targetOutput, imgCount, errCount,
           predictedNum, open, reports, acc, weightBefore, entryWeight,
           seqCell, nRead, started, finished, history, seqErrCount, prev,
           inits, updates, evals, lastTrained, processed >>

----------------------------------------------------------------------------
(* The collaborators of main.c: the layer's construction, the streams, the *)
(* target encoder and the prediction rule.                                 *)

\* rand()/RAND_MAX of initLayer: the k-th draw of the generator seeded with seed
InitWeight(seed, k) == ((3 + 7 * k + 16 * seed) % 20) * (Unit \div 20)

\* initLayer: every weight of every cell drawn from the generator
InitLayerCells(seed) ==
    [i \in Cells |->
        [weight |-> [j \in Inputs |-> InitWeight(seed, i * NUMBER_OF_INPUT_CELLS + j)],
         input  |-> [j \in Inputs |-> 0],
         output |-> 0]]

\* getImage: the image of record d of a stream (pixel intensities 0..255)
SampleImage(d) == [j \in Inputs |-> IF (d \div Pow2(j)) % 2 = 1 THEN 255 - j ELSE 0]

\* getLabel: the label of record d read at position k of a stream
SampleLabel(d, k) == (d + k + 1) % NUMBER_OF_OUTPUT_CELLS

\* getTargetOutput: the one-hot vector of a label
GetTargetOutput(label) == [i \in Cells |-> IF i = label THEN Unit ELSE 0]

\* getLayerPrediction: scan 0..n-1 keeping the first maximum
RECURSIVE MaxIndex(_, _)
MaxIndex(c, n) ==
    IF n = 1 THEN 0
    ELSE LET m == MaxIndex(c, n - 1)
         IN  IF c[n - 1].output > c[m].output THEN n - 1 ELSE m

GetLayerPrediction(c) == MaxIndex(c, NUMBER_OF_OUTPUT_CELLS)

LEARNING_RATE == Unit \div 20

----------------------------------------------------------------------------
(* The body of the parallel loop of trainLayer *)

\* the pixel value stored as it is
BinarizeRaw(p) == p

\* img.pixel[j] ? 1 : 0
Binarize(p) == IF p # 0 THEN 1 ELSE 0

\* c_output after the first n iterations of the loop over j
RECURSIVE SumActive(_, _, _)
SumActive(w, in, n) ==
    IF n = 0 THEN 0
    ELSE LET c_output == SumActive(w, in, n - 1)
         IN  IF in[n - 1] # 0 THEN FAdd(c_output, w[n - 1]) ELSE c_output

\* the sum divided by the number of active positions
CellOutputByActive(w, in, n) ==
    LET active == Cardinality({j \in 0 .. (n - 1) : in[j] # 0})
    IN  IF active = 0 THEN 0 ELSE FDiv(SumActive(w, in, n), FromInt(active))

\* the sum stored without the normalisation
CellOutputRaw(w, in, n) == SumActive(w, in, n)

\* c_output / NUMBER_OF_INPUT_CELLS
CellOutput(w, in, n) == FDiv(SumActive(w, in, n), FromInt(n))

\* the cell after lines 84-92: input and output stored
ForwardCell(c, image, n) ==
    LET in == [j \in 0 .. (n - 1) |-> Binarize(image[j])]
    IN  [c EXCEPT !.input = in, !.output = CellOutput(c.weight, in, n)]

\* the operands of the subtraction swapped
CellErrorReversed(t, o) == FSub(o, t)

\* err = targetOutput.val[i] - l->cell[i].output
CellError(t, o) == FSub(t, o)

\* the update without the test of input[j]
AdjustAlways(w, in, temp) == FAdd(w, temp)

\* if (input[j]) weight[j] += temp
AdjustWeight(w, in, temp) == IF in # 0 THEN FAdd(w, temp) ELSE w

\* an update that stores the output again, computed from the new weights
LearnCellRecomputing(c, t, rate, n) ==
    LET temp == FMul(CellError(t, c.output), rate)
        w == [j \in 0 .. (n - 1) |-> AdjustWeight(c.weight[j], c.input[j], temp)]
    IN  [c EXCEPT !.weight = w, !.output = CellOutput(w, c.input, n)]

\* the cell after lines 94-101
LearnCell(c, t, rate, n) ==
    LET err == CellError(t, c.output)
        temp == FMul(err, rate)
    IN  [c EXCEPT !.weight = [j \in 0 .. (n - 1) |-> AdjustWeight(c.weight[j], c.input[j], temp)]]

(* The body of the parallel loop of testLayer *)

RECURSIVE SumActiveTest(_, _, _)
SumActiveTest(w, in, n) ==
    IF n = 0 THEN 0
    ELSE LET c_output_test == SumActiveTest(w, in, n - 1)
         IN  IF in[n - 1] # 0 THEN FAdd(c_output_test, w[n - 1]) ELSE c_output_test

\* a testLayer body whose accumulator starts from the stored output
TestCellAccumulating(c, image, n) ==
    LET in == [j \in 0 .. (n - 1) |-> IF image[j] # 0 THEN 1 ELSE 0]
    IN  [c EXCEPT !.input = in,
                  !.output = FDiv(FAdd(FMul(c.output, FromInt(n)),
                                       SumActiveTest(c.weight, in, n)), FromInt(n))]

\* a testLayer body that kept the learning step of trainLayer
TestCellLearning(c, image, n) ==
    LearnCell(ForwardCell(c, image, n), 0, LEARNING_RATE, n)

\* the cell after lines 170-177
TestCell(c, image, n) ==
    LET in == [j \in 0 .. (n - 1) |-> IF image[j] # 0 THEN 1 ELSE 0]
    IN  [c EXCEPT !.input = in,
                  !.output = FDiv(SumActiveTest(c.weight, in, n), FromInt(n))]

\* every iteration works on the first cell
CellShared(i) == 0

\* the last iteration works on the cell before it
CellClamped(i) == IF i > 0 /\ i = NUMBER_OF_OUTPUT_CELLS - 1 THEN i - 1 ELSE i

\* l->cell[i]: the cell that iteration i of a parallel loop works on
CellOf(i) == i

\* a loop that the master leaves as soon as one iteration has ended
BarrierAny == \E i \in Cells : wpc[i] = "done"

\* the implicit barrier that ends a parallel loop
Barrier == \A i \in Cells : wpc[i] = "done"

\* a loop that stops one iteration short
LoopContinuesShort(count, total) == count < total - 1

\* a loop that runs one iteration more
LoopContinuesLong(count, total) == count < total + 1

\* imgCount<MNIST_MAX_TRAINING_IMAGES, imgCount<MNIST_MAX_TESTING_IMAGES
LoopContinues(count, total) == count < total

\* a pass that returns without closing its label file
FCloseImagesOnly(files, streams) == files \ {f \in streams : f \in {"trainImages", "testImages"}}

\* fclose(imageFile); fclose(labelFile)
FClose(files, streams) == files \ streams

\* the comparison inverted
Match(p, l) == p = l

\* predictedNum != lbl
Mismatch(p, l) == p # l

\* 100.0 - (double)errCount/(double)(total)*100
SuccessRate(e, total) ==
    FSub(FromInt(100), FMul(FDiv(FromInt(e), FromInt(total)), FromInt(100)))

(* Memory locations touched by the loop bodies, as <<field, cell, index>> *)

ForwardReads(c) ==
    {<<"pixel", 0, j>> : j \in Inputs}
        \cup {<<"input", c, j>> : j \in Inputs}
        \cup {<<"weight", c, j>> : j \in {k \in Inputs : img[k] # 0}}

ForwardWrites(c) ==
    {<<"input", c, j>> : j \in Inputs} \cup {<<"output", c, 0>>}

LearnReads(i, c) ==
    {<<"target", 0, i>>, <<"output", c, 0>>}
        \cup {<<"input", c, j>> : j \in Inputs}
        \cup {<<"weight", c, j>> : j \in {k \in Inputs : cell[c].input[k] # 0}}

LearnWrites(c) ==
    {<<"weight", c, j>> : j \in {k \in Inputs : cell[c].input[k] # 0}}

NoAccess == [i \in Cells |-> [r |-> {}, w |-> {}]]

Touch(i, reads, writes) ==
    [acc EXCEPT ![i] = [r |-> @.r \cup reads, w |-> @.w \cup writes]]

\* iteration i of the parallel loop of trainLayer (train) or testLayer on the
\* cells p; the cell computed by lines 84-92 is taken through a bound variable
\* so that the update of lines 94-101 evaluates it once
SeqStep(p, i, image, target, train) ==
    IF train
    THEN CHOOSE r \in {[p EXCEPT ![CellOf(i)] =
                            LearnCell(f, target[i], LEARNING_RATE, NUMBER_OF_INPUT_CELLS)] :
                      f \in {ForwardCell(p[CellOf(i)], image, NUMBER_OF_INPUT_CELLS)}} : TRUE
    ELSE [p EXCEPT ![CellOf(i)] = TestCell(p[CellOf(i)], image, NUMBER_OF_INPUT_CELLS)]

\* the parallel loop of trainLayer (train) or testLayer run in index order
RECURSIVE SeqCells(_, _, _, _, _)
SeqCells(c, n, image, target, train) ==
    IF n = 0 THEN c
    ELSE CHOOSE r \in {SeqStep(p, n - 1, image, target, train) :
                          p \in {SeqCells(c, n - 1, image, target, train)}} : TRUE

Weights(c) == [i \in Cells |-> c[i].weight]

----------------------------------------------------------------------------
\* the program's variables: Layer *l, the locals of a pass, the open FILE streams
TypeOK ==
    /\ pc \in {"initLayer", "train_open", "train_loop", "train_par", "test_open",
               "test_loop", "test_par", "done", "aborted"}
    /\ wpc \in [Cells -> {"idle", "forward", "learn", "done"}]
    /\ \A i \in Cells :
          /\ DOMAIN cell[i] = {"weight", "input", "output"}
          /\ cell[i].weight \in [Inputs -> Int]
          /\ cell[i].input \in [Inputs -> {0, 1}]
          /\ cell[i].output \in Int
    /\ img \in [Inputs -> 0 .. 255]
    /\ lbl \in Cells
    /\ targetOutput \in [Cells -> {0, Unit}]
    /\ imgCount \in Nat
    /\ errCount \in Nat
    /\ predictedNum \in Cells
    /\ open \subseteq {"trainImages", "trainLabels", "testImages", "testLabels"}

Init ==
    /\ pc = "initLayer"
    /\ wpc = [i \in Cells |-> "idle"]
    /\ cell = [i \in Cells |-> [weight |-> [j \in Inputs |-> 0],
                                 input  |-> [j \in Inputs |-> 0],
                                 output |-> 0]]
    /\ img = [j \in Inputs |-> 0]
    /\ lbl = 0
    /\ targetOutput = [i \in Cells |-> 0]
    /\ imgCount = 0
    /\ errCount = 0
    /\ predictedNum = 0
    /\ open = {}
    /\ reports = << >>
    /\ acc = NoAccess
    /\ weightBefore = [i \in Cells |-> [j \in Inputs |-> 0]]
    /\ entryWeight = [i \in Cells |-> [j \in Inputs |-> 0]]
    /\ seqCell = cell
    /\ nRead = 0
    /\ started = [i \in Cells |-> 0]
    /\ finished = [i \in Cells |-> 0]
    /\ history = << >>
    /\ seqErrCount = 0
    /\ prev = << >>
    /\ inits = 0
    /\ updates = [i \in Cells |-> 0]
    /\ evals = [i \in Cells |-> 0]
    /\ lastTrained = [i \in Cells |-> [j \in Inputs |-> 0]]
    /\ processed = [train |-> << >>, test |-> << >>]

\* main: initLayer(&outputLayer)
InitLayer ==
    /\ pc = "initLayer"
    /\ \E seed \in 0 .. (NumSeeds - 1) : cell' = InitLayerCells(seed)
    /\ pc' = "train_open"
    /\ inits' = inits + 1
    /\ lastTrained' = Weights(cell')
    /\ UNCHANGED << wpc, img, lbl, targetOutput, imgCount, errCount, predictedNum,
                    open, reports, acc, weightBefore, entryWeight, seqCell, nRead,
                    started, finished, history, seqErrCount, prev, updates, evals, processed >>

\* a pass opens its two streams and zeroes its counters, or the run aborts
OpenPass(at, loop, streams) ==
    /\ pc = at
    /\ \E ok \in BOOLEAN :
          IF ok
          THEN /\ pc' = loop
               /\ open' = open \cup streams
          ELSE /\ pc' = "aborted"
               /\ open' = open
    /\ errCount' = 0
    /\ imgCount' = 0
    /\ nRead' = 0
    /\ started' = [i \in Cells |-> 0]
    /\ finished' = [i \in Cells |-> 0]
    /\ history' = << >>
    /\ seqErrCount' = 0
    /\ prev' = << >>
    /\ entryWeight' = Weights(cell)
    /\ UNCHANGED << wpc, cell, img, lbl, targetOutput, predictedNum, reports, acc,
                    weightBefore, seqCell,
                    inits, updates, evals, lastTrained, processed >>

\* trainLayer, lines 48-59
TrainOpen == OpenPass("train_open", "train_loop", {"trainImages", "trainLabels"})

\* testLayer, lines 139-149
TestOpen == OpenPass("test_open", "test_loop", {"testImages", "testLabels"})

\* the next record is read and the parallel loop is entered
ReadSample(loop, par, total, train) ==
    /\ pc = loop
    /\ LoopContinues(imgCount, total)
    /\ \E d \in 0 .. (NumRecords - 1) :
          /\ img' = SampleImage(d)
          /\ lbl' = SampleLabel(d, imgCount)
    /\ targetOutput' = GetTargetOutput(lbl')
    /\ pc' = par
    /\ wpc' = [i \in Cells |-> "forward"]
    /\ acc' = NoAccess
    /\ weightBefore' = Weights(cell)
    /\ seqCell' = SeqCells(cell, NUMBER_OF_OUTPUT_CELLS, img', targetOutput', train)
    /\ nRead' = nRead + 1
    /\ UNCHANGED << cell, imgCount, errCount, predictedNum, open, reports,
                    entryWeight, started, finished, history, seqErrCount, prev,
                    inits, updates, evals, lastTrained, processed >>

\* trainLayer, lines 62-81
TrainRead == ReadSample("train_loop", "train_par", MNIST_MAX_TRAINING_IMAGES, TRUE)

\* testLayer, lines 152-168
TestRead == ReadSample("test_loop", "test_par", MNIST_MAX_TESTING_IMAGES, FALSE)

\* trainLayer, lines 84-92, iteration i
TrainForward(i) ==
    /\ pc = "train_par"
    /\ wpc[i] = "forward"
    /\ cell' = [cell EXCEPT ![CellOf(i)] =
                   ForwardCell(cell[CellOf(i)], img, NUMBER_OF_INPUT_CELLS)]
    /\ wpc' = [wpc EXCEPT ![i] = "learn"]
    /\ acc' = Touch(i, ForwardReads(CellOf(i)), ForwardWrites(CellOf(i)))
    /\ started' = [started EXCEPT ![i] = @ + 1]
    /\ UNCHANGED << pc, img, lbl, targetOutput, imgCount, errCount, predictedNum,
                    open, reports, weightBefore, entryWeight, seqCell, nRead,
                    finished, history, seqErrCount, prev,
                    inits, updates, evals, lastTrained, processed >>

\* trainLayer, lines 94-101, iteration i
TrainLearn(i) ==
    /\ pc = "train_par"
    /\ wpc[i] = "learn"
    /\ cell' = [cell EXCEPT ![CellOf(i)] =
                   LearnCell(cell[CellOf(i)], targetOutput[i], LEARNING_RATE,
                             NUMBER_OF_INPUT_CELLS)]
    /\ wpc' = [wpc EXCEPT ![i] = "done"]
    /\ acc' = Touch(i, LearnReads(i, CellOf(i)), LearnWrites(CellOf(i)))
    /\ finished' = [finished EXCEPT ![i] = @ + 1]
    /\ updates' = [updates EXCEPT ![CellOf(i)] = @ + 1]
    /\ lastTrained' = Weights(cell')
    /\ UNCHANGED << pc, img, lbl, targetOutput, imgCount, errCount, predictedNum,
                    open, reports, weightBefore, entryWeight, seqCell, nRead,
                    started, history, seqErrCount, prev,
                    inits, evals, processed >>

\* testLayer, lines 170-177, iteration i
TestForward(i) ==
    /\ pc = "test_par"
    /\ wpc[i] = "forward"
    /\ cell' = [cell EXCEPT ![CellOf(i)] =
                   TestCell(cell[CellOf(i)], img, NUMBER_OF_INPUT_CELLS)]
    /\ wpc' = [wpc EXCEPT ![i] = "done"]
    /\ acc' = Touch(i, ForwardReads(CellOf(i)), ForwardWrites(CellOf(i)))
    /\ started' = [started EXCEPT ![i] = @ + 1]
    /\ finished' = [finished EXCEPT ![i] = @ + 1]
    /\ evals' = [evals EXCEPT ![CellOf(i)] = @ + 1]
    /\ UNCHANGED << pc, img, lbl, targetOutput, imgCount, errCount, predictedNum,
                    open, reports, weightBefore, entryWeight, seqCell, nRead,
                    history, seqErrCount, prev,
                    inits, updates, lastTrained, processed >>

\* after the barrier: the prediction, the error counter, the loop counter
Predict(par, loop, pass) ==
    /\ pc = par
    /\ Barrier
    /\ predictedNum' = GetLayerPrediction(cell)
    /\ errCount' = IF Mismatch(predictedNum', lbl) THEN errCount + 1 ELSE errCount
    /\ imgCount' = imgCount + 1
    /\ pc' = loop
    /\ wpc' = [i \in Cells |-> "idle"]
    /\ history' = Append(history, [predicted |-> predictedNum', label |-> lbl])
    /\ seqErrCount' = IF GetLayerPrediction(seqCell) # lbl THEN seqErrCount + 1
                      ELSE seqErrCount
    /\ prev' = << [img |-> img, cell |-> cell] >>
    /\ processed' = [processed EXCEPT ![pass] = Append(@, nRead - 1)]
    /\ UNCHANGED << cell, img, lbl, targetOutput, open, reports, acc, weightBefore,
                    entryWeight, seqCell, nRead, started, finished,
                    inits, updates, evals, lastTrained >>

\* trainLayer, lines 103-113
TrainPredict == Predict("train_par", "train_loop", "train")

\* testLayer, lines 178-187
TestPredict == Predict("test_par", "test_loop", "test")

\* the loop has ended: the success rate is printed and the streams are closed
Report(loop, next, total, pass, streams) ==
    /\ pc = loop
    /\ ~LoopContinues(imgCount, total)
    /\ reports' = Append(reports, [pass |-> pass, errCount |-> errCount,
                                   successRate |-> SuccessRate(errCount, total)])
    /\ open' = FClose(open, streams)
    /\ pc' = next
    /\ UNCHANGED << wpc, cell, img, lbl, targetOutput, imgCount, errCount,
                    predictedNum, acc, weightBefore, entryWeight, seqCell, nRead,
                    started, finished, history, seqErrCount, prev,
                    inits, updates, evals, lastTrained, processed >>

\* trainLayer, lines 115-125
TrainReport ==
    Report("train_loop", "test_open", MNIST_MAX_TRAINING_IMAGES, "train",
           {"trainImages", "trainLabels"})

\* testLayer, lines 189-200
TestReport ==
    Report("test_loop", "done", MNIST_MAX_TESTING_IMAGES, "test",
           {"testImages", "testLabels"})

Next ==
    \/ InitLayer
    \/ TrainOpen
    \/ TrainRead
    \/ \E i \in Cells : TrainForward(i)
    \/ \E i \in Cells : TrainLearn(i)
    \/ TrainPredict
    \/ TrainReport
    \/ TestOpen
    \/ TestRead
    \/ \E i \in Cells : TestForward(i)
    \/ TestPredict
    \/ TestReport

Spec == Init /\ [][Next]_vars

\* the threads keep running: while some thread has a step to take, a step is
\* taken.  A worker waiting at the barrier of a parallel loop has no step, so
\* then the step is taken by a thread that has not reached the barrier, and
\* outside the parallel loops by the main thread.
Fairness == WF_vars(Next)

FairSpec == Spec /\ Fairness

----------------------------------------------------------------------------
(* Properties *)

InTest == pc \in {"test_loop", "test_par", "done"}
InLoop == pc \in {"train_par", "test_par"}

OwnLocs(i) ==
    {<<"weight", i, j>> : j \in Inputs}
        \cup {<<"input", i, j>> : j \in Inputs}
        \cup {<<"output", i, 0>>}
SharedLocs ==
    {<<"pixel", 0, j>> : j \in Inputs} \cup {<<"target", 0, i>> : i \in Cells}

\* C1: during and after testLayer every weight of every cell equals its value
\* when testLayer was entered, and the workers of the test loop write only the
\* cells' input and output fields.
C1_TestLeavesWeights ==
    InTest =>
        /\ Weights(cell) = entryWeight
        /\ nRead > 0 =>
              \A i \in Cells :
                  acc[i].w \subseteq {<<"input", i, j>> : j \in Inputs}
                                         \cup {<<"output", i, 0>>}

\* testLayer has processed all its samples, on a layer that training changed
C1_Witness ==
    /\ pc = "done"
    /\ imgCount = MNIST_MAX_TESTING_IMAGES
    /\ \E i \in Cells : cell[i].output # 0 /\ acc[i].w # {}
    /\ \E seed \in 0 .. (NumSeeds - 1) : entryWeight # Weights(InitLayerCells(seed))

\* C2: no two workers of one parallel loop access the same location with one
\* of them writing; worker i reads and writes only cell i's fields and reads
\* the shared image and target vector.
C2_NoDataRace ==
    /\ \A i, k \in Cells :
          i # k => acc[i].w \cap (acc[k].r \cup acc[k].w) = {}
    /\ \A i \in Cells :
          /\ acc[i].w \subseteq OwnLocs(i)
          /\ acc[i].r \subseteq OwnLocs(i) \cup SharedLocs

\* two workers of the training loop are under way, both having written
C2_Witness ==
    /\ pc = "train_par"
    /\ \E i, k \in Cells :
          /\ i # k
          /\ wpc[i] = "learn" /\ wpc[k] = "learn"
          /\ acc[i].w # {} /\ acc[k].w # {}
          /\ acc[i].r \cap SharedLocs # {}

\* C3: whatever the interleaving, a cell that has ended its iteration holds the
\* weights, input and output that the loop run in index order 0..C-1 gives it,
\* and the prediction and the error counter are those of that sequential run.
C3_OrderIndependent ==
    /\ InLoop => \A i \in Cells : wpc[i] = "done" => cell[i] = seqCell[i]
    /\ (InLoop /\ Barrier) => cell = seqCell
    /\ (pc \in {"train_loop", "test_loop"} /\ nRead > 0) =>
          /\ cell = seqCell
          /\ predictedNum = MaxIndex(seqCell, NUMBER_OF_OUTPUT_CELLS)
    /\ errCount = seqErrCount

\* in the second training sample the last cell has learnt, changing its
\* weights, before the first cell has started
C3_Witness ==
    /\ pc = "train_par"
    /\ nRead = 2
    /\ wpc[0] = "forward"
    /\ wpc[NUMBER_OF_OUTPUT_CELLS - 1] = "done"
    /\ cell[NUMBER_OF_OUTPUT_CELLS - 1].weight # weightBefore[NUMBER_OF_OUTPUT_CELLS - 1]
    /\ errCount = 1

\* C4: the bookkeeping of sample k comes after every cell has ended its step
\* for sample k, and neither the read of sample k+1 nor any cell's step for it
\* comes before that bookkeeping: with imgCount the samples booked, nRead the
\* samples read and started/finished the steps of each cell,
\* imgCount <= finished <= started <= nRead <= imgCount + 1.
C4_SamplesSequential ==
    /\ imgCount <= nRead
    /\ nRead <= imgCount + 1
    /\ \A i \in Cells :
          /\ imgCount <= finished[i]
          /\ finished[i] <= started[i]
          /\ started[i] <= nRead
    /\ InLoop => nRead = imgCount + 1
    /\ ~InLoop => /\ nRead = imgCount
                  /\ \A i \in Cells : wpc[i] = "idle"

\* one cell works on the second test sample while another has not started it
C4_Witness ==
    /\ pc = "test_par"
    /\ imgCount = 1
    /\ nRead = 2
    /\ \E i, k \in Cells : started[i] = 2 /\ finished[i] = 2 /\ started[k] = 1

ComputeDone(i) == InLoop /\ wpc[i] \in {"learn", "done"}
LearnDone(i) == pc = "train_par" /\ wpc[i] = "done"

\* the features, weights and cells of the spec's scenario: N=4, C=2
ScenarioFeatures == [j \in 0 .. 3 |-> IF j % 2 = 0 THEN 1 ELSE 0]
ScenarioCell(w) ==
    [weight |-> [j \in 0 .. 3 |-> w], input |-> [j \in 0 .. 3 |-> 0], output |-> 0]
ScenarioTrained(w, t) ==
    LearnCell(ForwardCell(ScenarioCell(w), ScenarioFeatures, 4), t, Unit, 4)

C5_Rule ==
    \A i \in Cells :
        LearnDone(i) =>
            LET err == FSub(targetOutput[i], cell[i].output)
                step == FMul(err, LEARNING_RATE)
            IN  \A j \in Inputs :
                    cell[i].weight[j] =
                        IF img[j] # 0 THEN FAdd(weightBefore[i][j], step)
                        ELSE weightBefore[i][j]

C5_Instance ==
    /\ ScenarioTrained(Unit \div 2, 0).weight =
          [j \in 0 .. 3 |-> IF j % 2 = 0 THEN Unit \div 4 ELSE Unit \div 2]
    /\ ScenarioTrained(Unit \div 5, Unit).weight =
          [j \in 0 .. 3 |-> IF j % 2 = 0 THEN (11 * Unit) \div 10 ELSE Unit \div 5]

\* C5: after the update step of a cell for a sample, each weight at a position
\* whose binarized input is 1 is its value before the sample plus
\* (target - output) * learning rate, with the output just computed for that
\* sample, and each weight at a position whose input is 0 is unchanged; the
\* spec's N=4 instance gives 0.25 and 1.1 at positions 0 and 2.
C5_UpdateRule == C5_Rule /\ C5_Instance

\* a cell has learnt from an image with an active and an inactive pixel, and
\* its active weight has changed
C5_Witness ==
    \E i \in Cells :
        /\ LearnDone(i)
        /\ \E j, k \in Inputs :
              /\ img[j] # 0 /\ cell[i].weight[j] # weightBefore[i][j]
              /\ img[k] = 0 /\ cell[i].weight[k] = weightBefore[i][k]
                            /\ weightBefore[i][k] # 0

\* the sum of the weights at the non-zero pixels, added in index order
RECURSIVE PixelSum(_, _, _)
PixelSum(w, image, n) ==
    IF n = 0 THEN 0
    ELSE IF image[n - 1] # 0 THEN FAdd(PixelSum(w, image, n - 1), w[n - 1])
         ELSE PixelSum(w, image, n - 1)

C6_Rule ==
    \A i \in Cells :
        ComputeDone(i) =>
            /\ cell[i].input = [j \in Inputs |-> IF img[j] # 0 THEN 1 ELSE 0]
            /\ cell[i].output =
                  FDiv(PixelSum(weightBefore[i], img, NUMBER_OF_INPUT_CELLS),
                       NUMBER_OF_INPUT_CELLS * Unit)

C6_Instance ==
    LET c == ForwardCell(ScenarioCell(Unit \div 2), ScenarioFeatures, 4)
        t == TestCell(ScenarioCell(Unit \div 2), ScenarioFeatures, 4)
    IN  /\ c.output = Unit \div 4
        /\ c.input = ScenarioFeatures
        /\ t.output = Unit \div 4
        /\ t.input = ScenarioFeatures

\* C6: in training and in evaluation the compute step of a cell stores the
\* binarized image as the cell's input and sets output to the sum of the
\* weights at the active positions divided by the full feature count N; the
\* spec's instance (weights 0.5, features [1,0,1,0], N=4) gives 0.25.
C6_ComputeRule == C6_Rule /\ C6_Instance

\* a test worker has computed a non-zero output from an image with one active
\* pixel of intensity above 1 and one inactive pixel
C6_Witness ==
    \E i \in Cells :
        /\ pc = "test_par"
        /\ wpc[i] = "done"
        /\ cell[i].output # 0
        /\ \E j, k \in Inputs : img[j] > 1 /\ img[k] = 0 /\ weightBefore[i][k] # 0

\* C7 as stated: after the update of a cell, at every active position the
\* sign of (weight after - weight before) is the sign of (target - output).
C7_StrictDirection ==
    \A i \in Cells :
        LearnDone(i) =>
            \A j \in Inputs :
                cell[i].input[j] = 1 =>
                    Sign(cell[i].weight[j] - weightBefore[i][j])
                        = Sign(targetOutput[i] - cell[i].output)

\* C7 amended: after the update of a cell, at every active position the weight
\* has not moved against the sign of (target - output): the sign of
\* (weight after - weight before) is that sign or 0, and it is 0 when target
\* equals output.
C7_NeverAgainstDirection ==
    \A i \in Cells :
        LearnDone(i) =>
            \A j \in Inputs :
                cell[i].input[j] = 1 =>
                    Sign(cell[i].weight[j] - weightBefore[i][j])
                        \in {0, Sign(targetOutput[i] - cell[i].output)}

\* a cell has learnt with target above output and another with target below:
\* an active weight of the first has risen, one of the second has fallen
C7_Witness ==
    \E i, k \in Cells :
        /\ LearnDone(i) /\ LearnDone(k)
        /\ targetOutput[i] > cell[i].output
        /\ targetOutput[k] < cell[k].output
        /\ \E j \in Inputs :
              /\ cell[i].input[j] = 1 /\ cell[i].weight[j] > weightBefore[i][j]
              /\ cell[k].input[j] = 1 /\ cell[k].weight[j] < weightBefore[k][j]

\* C8: when every weight of a cell is in [0,1) as its compute step runs, the
\* output it computes is in [0,1].
C8_OutputInUnitRange ==
    \A i \in Cells :
        (ComputeDone(i) /\ \A j \in Inputs :
                               0 <= weightBefore[i][j] /\ weightBefore[i][j] < Unit)
            => (0 <= cell[i].output /\ cell[i].output <= Unit)

\* a cell whose weights are in [0,1) and sum to more than 1 has computed its
\* output from an image with every pixel active
C8_Witness ==
    \E i \in Cells :
        /\ ComputeDone(i)
        /\ \A j \in Inputs :
              /\ 0 <= weightBefore[i][j] /\ weightBefore[i][j] < Unit
              /\ img[j] # 0
        /\ PixelSum(weightBefore[i], img, NUMBER_OF_INPUT_CELLS) > Unit
        /\ cell[i].output > 0

PassTotal(pass) ==
    IF pass = "train" THEN MNIST_MAX_TRAINING_IMAGES ELSE MNIST_MAX_TESTING_IMAGES

Mismatches == {k \in 1 .. Len(history) : history[k].predicted # history[k].label}

\* C9: in each pass the error counter is the number of samples processed so far
\* whose predicted class differs from the label, so it is 0 at the start and
\* 0 <= errCount <= samples processed; the pass reports that count and the
\* success rate 100 - errCount/T*100.
C9_ErrorCount ==
    /\ Len(history) = imgCount
    /\ errCount = Cardinality(Mismatches)
    /\ 0 <= errCount /\ errCount <= imgCount
    /\ imgCount = 0 => errCount = 0
    /\ \A r \in 1 .. Len(reports) :
          reports[r].successRate =
              FSub(100 * Unit,
                   FMul(FDiv(reports[r].errCount * Unit,
                             PassTotal(reports[r].pass) * Unit), 100 * Unit))
    /\ pc = "test_open" => reports[1].pass = "train" /\ reports[1].errCount = errCount
    /\ pc = "done" => reports[2].pass = "test" /\ reports[2].errCount = errCount

\* both passes have reported, the test pass with one mismatch and one match
C9_Witness ==
    /\ pc = "done"
    /\ Len(history) = MNIST_MAX_TESTING_IMAGES
    /\ \E k \in 1 .. Len(history) : history[k].predicted # history[k].label
    /\ \E k \in 1 .. Len(history) : history[k].predicted = history[k].label
    /\ reports[2].successRate < 100 * Unit
    /\ reports[2].successRate > 0

\* C10: when the compute step of a cell runs for a sample whose image is that
\* of the previous sample, with no weight update in between, it yields the
\* same output and the same cached input as the first time and leaves the
\* weights as they were.
C10_ComputeIdempotent ==
    (pc = "test_par" /\ prev # << >>) =>
        \A i \in Cells :
            (wpc[i] = "done" /\ prev[1].img = img) =>
                /\ cell[i].output = prev[1].cell[i].output
                /\ cell[i].input = prev[1].cell[i].input
                /\ cell[i].weight = prev[1].cell[i].weight

\* a test worker has recomputed a non-zero output for the image of the
\* previous test sample
C10_Witness ==
    /\ pc = "test_par"
    /\ prev # << >>
    /\ prev[1].img = img
    /\ \E j \in Inputs : img[j] # 0
    /\ \E i \in Cells : wpc[i] = "done" /\ cell[i].output # 0

----
\* the layer's lifecycle

\* the output that the weights w give on an image: the sum of the weights at
\* the nonzero pixels over the number of inputs
OutputFrom(w, image) ==
    FDiv(PixelSum(w, image, NUMBER_OF_INPUT_CELLS), NUMBER_OF_INPUT_CELLS * Unit)

InTraining == pc \in {"train_loop", "train_par"}
AfterTraining == pc \in {"test_open", "test_loop", "test_par", "done"}

\* C11: initLayer runs exactly once and before any training step; during
\* training every cell has run its update step exactly once for each sample
\* processed so far (once more for a cell that has already updated on the
\* sample in flight), whatever the schedule; no evaluation step runs during
\* training; and from the moment testLayer is called every cell has been
\* updated exactly MNIST_MAX_TRAINING_IMAGES times and the weights, and the
\* outputs computed from them for every test sample, are those left by the
\* last update step of training.
C11_LayerLifecycle ==
    /\ inits = (IF pc = "initLayer" THEN 0 ELSE 1)
    /\ pc = "initLayer" => \A i \in Cells : updates[i] = 0 /\ evals[i] = 0
    /\ InTraining =>
          \A i \in Cells :
              /\ updates[i] = imgCount + (IF LearnDone(i) THEN 1 ELSE 0)
              /\ evals[i] = 0
    /\ AfterTraining =>
          /\ \A i \in Cells : updates[i] = MNIST_MAX_TRAINING_IMAGES
          /\ Weights(cell) = lastTrained
          /\ \A i \in Cells :
                (pc = "test_par" /\ ComputeDone(i)) =>
                    cell[i].output = OutputFrom(lastTrained[i], img)

\* the second test sample is being evaluated, one cell has computed a nonzero
\* output, and training has left weights that differ from every initial layer
C11_Witness ==
    /\ pc = "test_par"
    /\ imgCount = MNIST_MAX_TESTING_IMAGES - 1
    /\ \E i \in Cells : wpc[i] = "done" /\ cell[i].output # 0
    /\ \A seed \in 0 .. (NumSeeds - 1) : lastTrained # Weights(InitLayerCells(seed))
    /\ \A i \in Cells : updates[i] = MNIST_MAX_TRAINING_IMAGES

----
\* the two passes on the same weights and sample

\* what the loop body of testLayer makes of cell i with the weights the sample
\* in flight started from
AsTested(i) ==
    TestCell([cell[i] EXCEPT !.weight = weightBefore[i]], img, NUMBER_OF_INPUT_CELLS)

\* what the compute step of trainLayer makes of cell i
AsTrained(i) == ForwardCell(cell[i], img, NUMBER_OF_INPUT_CELLS)

\* C12: on the same weights and the same sample the compute step of trainLayer
\* and the loop body of testLayer store the same inputs and the same output in
\* every cell, so the two passes predict the same class and add the same
\* amount to the error counter; trainLayer goes on to change the weights,
\* testLayer leaves them.
C12_SameForward ==
    /\ \A i \in Cells :
          (pc = "train_par" /\ ComputeDone(i)) =>
              /\ cell[i].input = AsTested(i).input
              /\ cell[i].output = AsTested(i).output
    /\ \A i \in Cells :
          (pc = "test_par" /\ ComputeDone(i)) =>
              /\ cell[i].input = AsTrained(i).input
              /\ cell[i].output = AsTrained(i).output
              /\ cell[i].weight = weightBefore[i]
    /\ (pc = "train_loop" /\ Len(history) > 0) =>
          LET p == GetLayerPrediction([i \in Cells |-> AsTested(i)])
          IN  /\ predictedNum = p
              /\ history[Len(history)].predicted = p
    /\ (pc = "test_loop" /\ Len(history) > 0) =>
          LET p == GetLayerPrediction([i \in Cells |-> AsTrained(i)])
          IN  /\ predictedNum = p
              /\ history[Len(history)].predicted = p

\* a training sample at its barrier: every cell holds a nonzero output, the
\* outputs differ, and the update has changed the weights of some cell
C12_Witness ==
    /\ pc = "train_par"
    /\ Barrier
    /\ \A i \in Cells : cell[i].output # 0
    /\ \E i, k \in Cells : cell[i].output # cell[k].output
    /\ Weights(cell) # weightBefore

----
\* a stream that cannot be opened

\* C13: when a stream cannot be opened the run aborts before any training or
\* evaluation has occurred: in an aborted run no cell has run an update step
\* of trainLayer or a compute step of testLayer.
C13_AbortBeforeAnyWork ==
    pc = "aborted" => \A i \in Cells : updates[i] = 0 /\ evals[i] = 0

\* where the run does abort: at the opening of a pass, with none of that
\* pass's records read; for the streams of testLayer that is after trainLayer
\* has processed and reported all its samples
C13_AbortAtOpenOfPass ==
    pc = "aborted" =>
        /\ nRead = 0
        /\ \A i \in Cells : evals[i] = 0
        /\ \/ Len(reports) = 0 /\ \A i \in Cells : updates[i] = 0
           \/ /\ Len(reports) = 1
              /\ Len(processed.train) = MNIST_MAX_TRAINING_IMAGES
              /\ \A i \in Cells : updates[i] = MNIST_MAX_TRAINING_IMAGES

----
\* running to completion

\* the stream positions 0 .. n-1 in order
Positions(n) == [k \in 1 .. n |-> k - 1]

Stopped == pc \in {"done", "aborted"}

C14_InOrderOnce ==
    /\ processed.train = Positions(Len(processed.train))
    /\ processed.test = Positions(Len(processed.test))
    /\ InTraining =>
          /\ Len(processed.train) = imgCount
          /\ nRead = imgCount + (IF pc = "train_par" THEN 1 ELSE 0)
          /\ processed.test = << >>
    /\ pc \in {"test_loop", "test_par"} =>
          /\ Len(processed.test) = imgCount
          /\ nRead = imgCount + (IF pc = "test_par" THEN 1 ELSE 0)
    /\ AfterTraining => processed.train = Positions(MNIST_MAX_TRAINING_IMAGES)
    /\ pc = "done" => processed.test = Positions(MNIST_MAX_TESTING_IMAGES)
    /\ pc = "aborted" => nRead = 0 /\ processed.test = << >>

\* a pass in progress is left only by its return: trainLayer to the call of
\* testLayer, testLayer to the end of main
C14_LeftOnlyByReturn ==
    /\ (InTraining /\ ~InTraining') => pc' = "test_open"
    /\ (pc \in {"test_loop", "test_par"} /\ pc' \notin {"test_loop", "test_par"}) =>
          pc' = "done"
    /\ (pc' = "aborted" /\ pc # "aborted") => pc \in {"train_open", "test_open"}

----
\* the streams of a pass

TrainStreams == {"trainImages", "trainLabels"}
TestStreams == {"testImages", "testLabels"}

----
\* the range of the outputs during training

\* C16: in every state of the training pass, whatever the samples trained on
\* so far, the output stored in every cell is within 0 .. 1.
C16_TrainOutputInUnitRange ==
    InTraining => \A i \in Cells : 0 <= cell[i].output /\ cell[i].output <= Unit

----
\* the prediction of a training sample

\* the class that the weights w give the image in flight: the first cell with
\* the greatest output
PredictionFrom(w) ==
    MaxIndex([i \in Cells |-> [output |-> OutputFrom(w[i], img)]],
             NUMBER_OF_OUTPUT_CELLS)

\* the two cells of the spec's scenario after the training step on its sample
ScenarioLayer ==
    [i \in 0 .. 1 |-> IF i = 0 THEN ScenarioTrained(Unit \div 2, 0)
                      ELSE ScenarioTrained(Unit \div 5, Unit)]

C17_Rule ==
    /\ \A i \in Cells :
          LearnDone(i) => cell[i].output = OutputFrom(weightBefore[i], img)
    /\ (pc = "train_loop" /\ Len(history) > 0) =>
          /\ \A i \in Cells : cell[i].output = OutputFrom(weightBefore[i], img)
          /\ predictedNum = PredictionFrom(weightBefore)
          /\ history[Len(history)].predicted = PredictionFrom(weightBefore)
          /\ errCount = Cardinality(Mismatches)

\* the scenario: the outputs left by the training step are 0.25 and 0.1, so
\* the prediction is 0, although the updated weights would give class 1
C17_Instance ==
    /\ ScenarioLayer[0].output = Unit \div 4
    /\ ScenarioLayer[1].output = Unit \div 10
    /\ MaxIndex(ScenarioLayer, 2) = 0
    /\ MaxIndex([i \in 0 .. 1 |-> ForwardCell(ScenarioLayer[i], ScenarioFeatures, 4)], 2) = 1

\* C17: in trainLayer the update step leaves the stored output as the compute
\* step wrote it, so after the update of sample k every cell's output, the
\* predicted class, the entry of the sample in the pass's record and the
\* error counter are those given by the weights as they were before sample
\* k's update, not by the weights that the update produced.
C17_PredictionBeforeUpdate == C17_Rule /\ C17_Instance

\* a training sample has been processed: its update changed the weights of a
\* cell, the changed weights would give that cell another output on the
\* sample, and the cell still holds the output computed before the update
C17_Witness ==
    /\ pc = "train_loop"
    /\ Len(history) > 0
    /\ \E i \in Cells :
          /\ cell[i].weight # weightBefore[i]
          /\ OutputFrom(cell[i].weight, img) # cell[i].output
          /\ cell[i].output = OutputFrom(weightBefore[i], img)
          /\ cell[i].output # 0

====
